---------------------------- MODULE Spec2Model ----------------------------
(***************************************************************************)
(* Variational Monte Carlo for Rydberg atoms with an autoregressive RNN    *)
(* wavefunction (src/src/3_VMC_Rydberg.ipynb).                             *)
(*                                                                         *)
(* The model follows the notebook: the constructor of VariationalMonteCarlo*)
(* (buildlattice, one step per appended bond), the methods sample, logpsi  *)
(* and localenergy, and the training loop of the last code cell.           *)
(***************************************************************************)
EXTENDS Integers, Sequences, FiniteSets, TLC

VARIABLES
    Lx, Ly,         \* self.Lx, self.Ly
    nn, nnn, nnnn,  \* self.nn, self.nnn, self.nnnn: lists of [site, site]
    pc,             \* position of the program
    bk,             \* buildlattice: iterations done of the current nested loop
    theta,          \* trainable variables of self.rnn and self.dense
    ns,             \* number of samples per step (batch size)
    epochs,         \* training iterations
    n,              \* loop variable of the training loop
    samples,        \* sample's samples, then the loop's samples
    logP,           \* sample's logP (returned, bound to _ by the loop)
    inputs,         \* sample's inputs
    hidden_state,   \* sample's hidden_state
    sj,             \* sample's loop variable j
    logpsi,         \* the loop's logpsi
    eloc,           \* localenergy's eloc, then the loop's eloc
    fj,             \* localenergy's off-diagonal loop variable j
    Eo,             \* the loop's Eo
    loss,           \* the loop's loss
    gradients,      \* the loop's gradients
    avg_E, var_E,   \* the loop's avg_E and var_E
    energy,         \* the list energy
    variance,       \* the list variance
    recording,      \* whether a GradientTape is recording
    watched,        \* the loop's tensors the tape has recorded as computed from theta
    evals,          \* model evaluations of the current iteration, in order
    steps           \* number of optimizer steps applied so far

latticeVars == <<Lx, Ly, nn, nnn, nnnn, bk>>
paramVars == <<theta, ns, epochs>>
sampleVars == <<samples, logP, inputs, hidden_state, sj>>
energyVars == <<eloc, fj>>
loopVars == <<n, logpsi, Eo, loss, gradients, avg_E, var_E, energy, variance, steps>>
tapeVars == <<recording, watched, evals>>
vars == <<Lx, Ly, nn, nnn, nnnn, pc, bk, theta, ns, epochs, n, samples, logP,
          inputs, hidden_state, sj, logpsi, eloc, fj, Eo, loss, gradients,
          avg_E, var_E, energy, variance, recording, watched, evals, steps>>

(***************************************************************************)
(* Bounds of the model.                                                    *)
(***************************************************************************)
\* largest lattice side the lattice specification builds
MaxL == 4
\* number of values a hidden state takes (the GRU state, quantised)
NH == 2
\* probabilities are multiples of 1/PUnit
PUnit == 2
\* largest number of sites of a lattice the sampling and energy runs use
MaxSites == 4
\* batch size of the runs with more than one sample per step
MaxBatch == 2
TrainSites == 2
MaxEpochs == 2

(***************************************************************************)
(* Program constants.                                                      *)
(***************************************************************************)
\* self.K = 2
K == 2
\* V = 7.0, Omega = 1.0, delta = 1.0
V == 7
Omega == 1
delta == 1

(***************************************************************************)
(* Lattice: coord_to_site and buildlattice.                                *)
(***************************************************************************)
\* self.N = Lx * Ly
N == Lx * Ly

\* range(m) has m iterations when m > 0 and none otherwise
RangeLen(m) == IF m > 0 THEN m ELSE 0

CoordToSiteSwapped(x, y) == Lx * x + y

\* def coord_to_site(self,x,y): return self.Ly*x+y
CoordToSite(x, y) == Ly * x + y

\* for x in range(Lx): for y in range(Ly-1): [site(x,y), site(x,y+1)]
\* k-th iteration (k from 0) of the nested loop: x = k \div (Ly-1), y = k % (Ly-1)
NNyCount == RangeLen(Lx) * RangeLen(Ly - 1)
NNyBond(k) ==
    LET x == k \div (Ly - 1)
        y == k % (Ly - 1)
    IN  <<CoordToSite(x, y), CoordToSite(x, y + 1)>>

\* for y in range(Ly): for x in range(Lx-1): [site(x,y), site(x+1,y)]
NNxCount == RangeLen(Ly) * RangeLen(Lx - 1)
NNxBond(k) ==
    LET y == k \div (Lx - 1)
        x == k % (Lx - 1)
    IN  <<CoordToSite(x, y), CoordToSite(x + 1, y)>>

\* for y in range(Ly-1): for x in range(Lx-1): two appends per iteration
NNNCount == RangeLen(Ly - 1) * RangeLen(Lx - 1)
NNNBonds(k) ==
    LET y == k \div (Lx - 1)
        x == k % (Lx - 1)
    IN  << <<CoordToSite(x, y), CoordToSite(x + 1, y + 1)>>,
           <<CoordToSite(x + 1, y), CoordToSite(x, y + 1)>> >>

\* for y in range(Ly): for x in range(Lx-2): [site(x,y), site(x+2,y)]
NNNNxCount == RangeLen(Ly) * RangeLen(Lx - 2)
NNNNxBond(k) ==
    LET y == k \div (Lx - 2)
        x == k % (Lx - 2)
    IN  <<CoordToSite(x, y), CoordToSite(x + 2, y)>>

NNNNyCountOff == RangeLen(Ly - 1) * RangeLen(Lx)

\* for y in range(Ly-2): for x in range(Lx): [site(x,y), site(x,y+2)]
NNNNyCount == RangeLen(Ly - 2) * RangeLen(Lx)
NNNNyBond(k) ==
    LET y == k \div Lx
        x == k % Lx
    IN  <<CoordToSite(x, y), CoordToSite(x, y + 2)>>


(***************************************************************************)
(* The recurrent network.  theta holds the GRU's kernel k (one row per     *)
(* one-hot component), its recurrent kernel u, and the dense layer d.  The *)
(* cell is a function of theta, the step input and the previous hidden     *)
(* state; the hidden state is quantised to NH values and the softmax       *)
(* output to multiples of 1/PUnit that sum to 1.                           *)
(***************************************************************************)
Hidden == 0 .. (NH - 1)
Theta == [k : [1 .. K -> Hidden], u : Hidden, d : [Hidden -> 0 .. PUnit]]

\* tf.zeros(shape=[nsamples,self.nh])
ZeroHidden == 0
\* tf.one_hot(x, depth=self.K)
OneHot(x) == [c \in 1 .. K |-> IF c = x + 1 THEN 1 ELSE 0]

StartTokenOneHot == OneHot(0)

\* 0.0*tf.one_hot(tf.zeros(...), depth=self.K): the all-zero start token
StartToken == [c \in 1 .. K |-> 0 * OneHot(0)[c]]

\* self.rnn(x, initial_state=h) on one step: the new hidden state, which is
\* also the step's output.  A zero input selects no kernel row.
Cell(th, x, h) == (x[1] * th.k[1] + x[2] * th.k[2] + th.u * h) % NH

\* self.dense(rnn_output): softmax over K = 2 outcomes, in units of 1/PUnit
Probs(th, h) == <<PUnit - th.d[h], th.d[h]>>

(***************************************************************************)
(* Logarithms are kept exact: LogOf(q) stands for ln(q/PUnit), and a value *)
(* [num, den, root] for ln(num/den)/root.  Adding logarithms multiplies    *)
(* the arguments, 0.5* doubles the root.                                   *)
(***************************************************************************)
\* the 1e-10 added to probs before tf.math.log, as one unit of the grid
Floor == 1
LogZero == [num |-> 1, den |-> 1, root |-> 1]
LogOf(q) == [num |-> q, den |-> PUnit, root |-> 1]
LogAdd(a, b) == [num |-> a.num * b.num, den |-> a.den * b.den, root |-> a.root]
LogEq(a, b) == a.root = b.root /\ a.num * b.den = b.num * a.den

\* 0.5 * a
Half(a) == [num |-> a.num, den |-> a.den, root |-> 2 * a.root]

LogProbsNoFloor(th, h) == [c \in 1 .. K |-> LogOf(Probs(th, h)[c])]

\* tf.math.log(1e-10+probs)
LogProbs(th, h) == [c \in 1 .. K |-> LogOf(Floor + Probs(th, h)[c])]

\* tf.reduce_sum(log_probs * one_hot, axis=-1): the chosen outcome's entry
Chosen(lps, hot) == lps[CHOOSE c \in 1 .. K : hot[c] = 1]

(***************************************************************************)
(* logpsi on one configuration s (s[j+1] is site j).                       *)
(***************************************************************************)
LogpsiInputNoStart(s, j) == IF j = 1 THEN OneHot(0) ELSE OneHot(s[j - 1])

\* inputs = tf.concat([x0, one_hot(samples[:,0:N-1])], axis=1): step j (from 1)
LogpsiInput(s, j) == IF j = 1 THEN StartToken ELSE OneHot(s[j - 1])

\* the hidden state after step j of self.rnn(inputs, initial_state=zeros)
RECURSIVE RnnOutput(_, _, _)
RnnOutput(th, s, j) ==
    IF j = 0 THEN ZeroHidden
    ELSE Cell(th, LogpsiInput(s, j), RnnOutput(th, s, j - 1))

\* the length of inputs: x0 and the one-hot of samples[:,0:N-1]
LogpsiSteps(s) == (IF Len(s) < N - 1 THEN Len(s) ELSE N - 1) + 1

\* two lengths multiply elementwise if they are equal or one of them is 1,
\* and then an axis of length 1 is read at index 1 for every j
Max(a, b) == IF a >= b THEN a ELSE b
Broadcastable(a, b) == a = b \/ a = 1 \/ b = 1
At(j, len) == IF len = 1 THEN 1 ELSE j

\* tf.reduce_sum(log(1e-10+probs) * one_hot(samples), axis=2) at step j
LogpsiStep(th, s, j) ==
    Chosen(LogProbs(th, RnnOutput(th, s, At(j, LogpsiSteps(s)))), OneHot(s[At(j, Len(s))]))

RECURSIVE LogpsiSum(_, _, _)
LogpsiSum(th, s, j) ==
    IF j = 0 THEN LogZero
    ELSE LogAdd(LogpsiSum(th, s, j - 1), LogpsiStep(th, s, j))

\* return 0.5*tf.reduce_sum(log_probs,axis=1)
Logpsi1(th, s) == Half(LogpsiSum(th, s, Max(LogpsiSteps(s), Len(s))))

\* tf.multiply of probs and one_hot(samples) raises on incompatible lengths
LogpsiRaises(s) == ~Broadcastable(LogpsiSteps(s), Len(s))

\* logpsi on a batch
LogpsiOf(th, batch) == [i \in DOMAIN batch |-> Logpsi1(th, batch[i])]

\* __init__ has stored its parameters; buildlattice has emptied the three
\* lists.  The loop's variables are not yet bound.
InitProgram(dims, thetas, batches, epochSet) ==
    /\ \E d \in dims : Lx = d[1] /\ Ly = d[2]
    /\ nn = <<>> /\ nnn = <<>> /\ nnnn = <<>>
    /\ pc = "nn_y"
    /\ bk = 0
    /\ theta \in thetas
    /\ ns \in batches
    /\ epochs \in epochSet
    /\ n = 0
    /\ samples = <<>> /\ logP = <<>> /\ inputs = <<>> /\ hidden_state = <<>>
    /\ sj = 0
    /\ logpsi = <<>> /\ eloc = <<>> /\ fj = 0 /\ Eo = 0
    /\ loss = <<>> /\ gradients = <<>>
    /\ avg_E = 0 /\ var_E = 0
    /\ energy = <<>> /\ variance = <<>>
    /\ recording = FALSE
    /\ watched = {}
    /\ evals = <<>>
    /\ steps = 0

BuildNNy ==
    /\ pc = "nn_y"
    /\ IF bk < NNyCount
       THEN /\ nn' = Append(nn, NNyBond(bk))
            /\ bk' = bk + 1
            /\ pc' = pc
       ELSE /\ nn' = nn
            /\ bk' = 0
            /\ pc' = "nn_x"
    /\ UNCHANGED <<Lx, Ly, nnn, nnnn, paramVars, sampleVars, energyVars, loopVars, tapeVars>>

BuildNNx ==
    /\ pc = "nn_x"
    /\ IF bk < NNxCount
       THEN /\ nn' = Append(nn, NNxBond(bk))
            /\ bk' = bk + 1
            /\ pc' = pc
       ELSE /\ nn' = nn
            /\ bk' = 0
            /\ pc' = "nnn"
    /\ UNCHANGED <<Lx, Ly, nnn, nnnn, paramVars, sampleVars, energyVars, loopVars, tapeVars>>

BuildNNN ==
    /\ pc = "nnn"
    /\ IF bk < NNNCount
       THEN /\ nnn' = nnn \o NNNBonds(bk)
            /\ bk' = bk + 1
            /\ pc' = pc
       ELSE /\ nnn' = nnn
            /\ bk' = 0
            /\ pc' = "nnnn_x"
    /\ UNCHANGED <<Lx, Ly, nn, nnnn, paramVars, sampleVars, energyVars, loopVars, tapeVars>>

BuildNNNNx ==
    /\ pc = "nnnn_x"
    /\ IF bk < NNNNxCount
       THEN /\ nnnn' = Append(nnnn, NNNNxBond(bk))
            /\ bk' = bk + 1
            /\ pc' = pc
       ELSE /\ nnnn' = nnnn
            /\ bk' = 0
            /\ pc' = "nnnn_y"
    /\ UNCHANGED <<Lx, Ly, nn, nnn, paramVars, sampleVars, energyVars, loopVars, tapeVars>>

BuildNNNNy ==
    /\ pc = "nnnn_y"
    /\ IF bk < NNNNyCount
       THEN /\ nnnn' = Append(nnnn, NNNNyBond(bk))
            /\ bk' = bk + 1
            /\ pc' = pc
       ELSE /\ nnnn' = nnnn
            /\ bk' = 0
            /\ pc' = "built"
    /\ UNCHANGED <<Lx, Ly, nn, nnn, paramVars, sampleVars, energyVars, loopVars, tapeVars>>

BuildLattice == BuildNNy \/ BuildNNx \/ BuildNNN \/ BuildNNNNx \/ BuildNNNNy

(***************************************************************************)
(* The training loop, up to the logpsi pass.                               *)
(***************************************************************************)
Batch == 1 .. ns
Eval(fn, arg, rec) == [fn |-> fn, arg |-> arg, rec |-> rec, theta |-> theta]

RangeShort(a, b) == a .. (b - 2)

\* range(a, b)
Range(a, b) == a .. (b - 1)

\* energy = []; variance = []
StartLoop ==
    /\ pc = "built"
    /\ energy' = <<>>
    /\ variance' = <<>>
    /\ pc' = "for"
    /\ UNCHANGED <<latticeVars, paramVars, sampleVars, energyVars, tapeVars,
                   n, logpsi, Eo, loss, gradients, avg_E, var_E, steps>>

\* for n in range(1,epochs+1): the next iteration enters vmc.sample(ns), which
\* zeroes inputs, hidden_state and logP; past the last one the loop ends
ForNext ==
    /\ pc = "for"
    /\ IF (n + 1) \in Range(1, epochs + 1)
       THEN /\ n' = n + 1
            /\ inputs' = [i \in Batch |-> StartToken]
            /\ hidden_state' = [i \in Batch |-> ZeroHidden]
            /\ logP' = [i \in Batch |-> LogZero]
            /\ samples' = [i \in Batch |-> <<>>]
            /\ sj' = 0
            /\ evals' = <<>>
            /\ watched' = {}
            /\ pc' = "sample"
       ELSE /\ pc' = "done"
            /\ UNCHANGED <<n, sampleVars, evals, watched>>
    /\ UNCHANGED <<latticeVars, paramVars, energyVars, recording,
                   logpsi, Eo, loss, gradients, avg_E, var_E, energy, variance, steps>>

\* one iteration of sample's loop over the sites; after the last one sample
\* returns samples and logP, and its other locals go out of scope
SampleStep ==
    /\ pc = "sample"
    /\ IF sj < N
       THEN \E draw \in [Batch -> 0 .. (K - 1)] :
              LET h2 == [i \in Batch |-> Cell(theta, inputs[i], hidden_state[i])]
                  log_probs == [i \in Batch |-> LogProbs(theta, h2[i])]
                  hot == [i \in Batch |-> OneHot(draw[i])]
              IN  /\ hidden_state' = h2
                  /\ samples' = [i \in Batch |-> Append(samples[i], draw[i])]
                  /\ inputs' = hot
                  /\ logP' = [i \in Batch |-> LogAdd(logP[i], Chosen(log_probs[i], hot[i]))]
                  /\ sj' = sj + 1
                  /\ pc' = pc
                  /\ evals' = evals
       ELSE /\ inputs' = <<>>
            /\ hidden_state' = <<>>
            /\ sj' = 0
            /\ evals' = Append(evals, Eval("sample", samples, recording))
            /\ pc' = "tape"
            /\ UNCHANGED <<samples, logP>>
    /\ UNCHANGED <<latticeVars, paramVars, energyVars, loopVars, recording, watched>>

\* with tf.GradientTape() as tape: logpsi = vmc.logpsi(samples)
TapeLogpsi ==
    /\ pc = "tape"
    /\ recording' = TRUE
    /\ logpsi' = LogpsiOf(theta, samples)
    /\ evals' = Append(evals, Eval("logpsi", samples, TRUE))
    /\ watched' = {"logpsi"}
    /\ pc' = "localenergy"
    /\ UNCHANGED <<latticeVars, paramVars, sampleVars, energyVars,
                   n, Eo, loss, gradients, avg_E, var_E, energy, variance, steps>>

(***************************************************************************)
(* localenergy.  Energies are fixed-point numbers in units of 1/EUnit,     *)
(* rounded down; EUnit is a multiple of 64, so V, V/8 and V/64 are exact.  *)
(***************************************************************************)
EUnit == 2 * 64

\* floor of the square root of x, by bisection on lo <= sqrt(x) < hi
RECURSIVE ISqrtIn(_, _, _)
ISqrtIn(x, lo, hi) ==
    IF hi - lo <= 1 THEN lo
    ELSE LET mid == (lo + hi) \div 2
         IN  IF mid * mid <= x THEN ISqrtIn(x, mid, hi) ELSE ISqrtIn(x, lo, mid)
\* 46340 is the largest integer whose square fits 32 bits
ISqrt(x) == ISqrtIn(x, 0, IF x < 46340 THEN x + 1 ELSE 46340)

\* tf.math.exp(a - b) for two halved logarithms, in units of 1/EUnit:
\* sqrt((a.num/a.den) / (b.num/b.den))
ExpDiff(a, b) ==
    LET x == IF a.den = b.den THEN a.num ELSE a.num * b.den
        y == IF a.den = b.den THEN b.num ELSE a.den * b.num
    IN  ISqrt((EUnit * EUnit * x) \div y)

\* for j in range(self.N): eloc += - self.delta * samples[:,j]
RECURSIVE ChemLoop(_, _)
ChemLoop(s, m) ==
    IF m = 0 THEN 0
    ELSE ChemLoop(s, m - 1) + (0 - delta * EUnit) * s[m]

\* for n in range(len(bonds)): eloc += coef * samples[:,b[n][0]]*samples[:,b[n][1]]
RECURSIVE BondLoop(_, _, _, _)
BondLoop(coef, s, bonds, m) ==
    IF m = 0 THEN 0
    ELSE BondLoop(coef, s, bonds, m - 1) + coef * (s[bonds[m][1] + 1] * s[bonds[m][2] + 1])

DiagEnergySwapped(s) ==
    ChemLoop(s, N)
    + BondLoop(V * EUnit, s, nn, Len(nn))
    + BondLoop((V * EUnit) \div 64, s, nnn, Len(nnn))
    + BondLoop((V * EUnit) \div 8, s, nnnn, Len(nnnn))

\* the value of eloc before the off-diagonal loop
DiagEnergy(s) ==
    ChemLoop(s, N)
    + BondLoop(V * EUnit, s, nn, Len(nn))
    + BondLoop((V * EUnit) \div 8, s, nnn, Len(nnn))
    + BondLoop((V * EUnit) \div 64, s, nnnn, Len(nnnn))

FlipSet(s, j) == [s EXCEPT ![j + 1] = 1]

FlipThrough(s, j) == [c \in DOMAIN s |-> IF c <= j + 1 THEN 1 - s[c] ELSE s[c]]

\* flip_samples = np.copy(samples); flip_samples[:,j] = 1 - flip_samples[:,j]
FlipSite(s, j) == [s EXCEPT ![j + 1] = 1 - s[j + 1]]
FlipBatch(batch, j) == [i \in DOMAIN batch |-> FlipSite(batch[i], j)]

\* -0.5*self.Omega * tf.math.exp(flip_logpsi-logpsi)
OffDiagTerm(flip_logpsi, lp) == 0 - ((Omega * ExpDiff(flip_logpsi, lp)) \div 2)

\* parameters whose hidden state carries the outcomes seen so far
EnergyThetas == {th \in Theta : th.u = 1 /\ th.k[1] = 0 /\ th.k[2] = 1}

\* the parameters the optimizer moves between
TrainThetas == {th \in EnergyThetas : th.d[0] = 1}

\* Adam's update depends on the gradient and on its own moments: any
\* parameters of the training grid
OptimizerStep(th, g) == TrainThetas

StillRecording == TRUE

\* with tape.stop_recording(): the tape stops recording inside the block
StopRecording == FALSE

LeDiagTrains ==
    /\ pc = "localenergy"
    /\ recording' = StopRecording
    /\ eloc' = [i \in Batch |-> DiagEnergy(samples[i])]
    /\ fj' = 0
    /\ theta' \in OptimizerStep(theta, logpsi)
    /\ pc' = "offdiag"
    /\ UNCHANGED <<latticeVars, ns, epochs, sampleVars, loopVars, watched, evals>>

\* with tape.stop_recording(): eloc = vmc.localenergy(samples, logpsi), up to
\* the off-diagonal loop
LeDiag ==
    /\ pc = "localenergy"
    /\ recording' = StopRecording
    /\ IF \E i \in Batch : Len(samples[i]) < N
       THEN \* samples[:,j] with j beyond the last column raises
            /\ pc' = "raised"
            /\ UNCHANGED <<eloc, fj>>
       ELSE /\ eloc' = [i \in Batch |-> DiagEnergy(samples[i])]
            /\ fj' = 0
            /\ pc' = "offdiag"
    /\ UNCHANGED <<latticeVars, paramVars, sampleVars, loopVars, watched, evals>>

LeFlipTrains ==
    /\ pc = "offdiag"
    /\ IF fj < N
       THEN \E flip_samples \in {FlipBatch(samples, fj)} :
            \E flip_logpsi \in {LogpsiOf(theta, flip_samples)} :
                /\ evals' = Append(evals, Eval("logpsi", flip_samples, recording))
                /\ eloc' = [i \in Batch |-> eloc[i] + OffDiagTerm(flip_logpsi[i], logpsi[i])]
                /\ watched' = IF recording THEN watched \cup {"eloc"} ELSE watched
                /\ theta' \in OptimizerStep(theta, flip_logpsi)
                /\ fj' = fj + 1
                /\ pc' = pc
       ELSE /\ fj' = 0
            /\ pc' = "Eo"
            /\ UNCHANGED <<eloc, evals, watched, theta>>
    /\ UNCHANGED <<latticeVars, ns, epochs, sampleVars, loopVars, recording>>

\* one iteration of the off-diagonal loop; after the last one localenergy
\* returns eloc
LeFlip ==
    /\ pc = "offdiag"
    /\ IF fj < N
       THEN \E flip_samples \in {FlipBatch(samples, fj)} :
            IF \E i \in Batch : LogpsiRaises(flip_samples[i])
            THEN \* self.logpsi(flip_samples) raises
                 /\ pc' = "raised"
                 /\ UNCHANGED <<eloc, evals, watched, fj>>
            ELSE \E flip_logpsi \in {LogpsiOf(theta, flip_samples)} :
                 /\ evals' = Append(evals, Eval("logpsi", flip_samples, recording))
                 /\ watched' = IF recording THEN watched \cup {"eloc"} ELSE watched
                 /\ IF Broadcastable(Len(flip_logpsi), Len(logpsi))
                    THEN /\ eloc' = [i \in 1 .. Max(Len(eloc), Len(logpsi)) |->
                                       eloc[At(i, Len(eloc))]
                                       + OffDiagTerm(flip_logpsi[At(i, Len(flip_logpsi))],
                                                     logpsi[At(i, Len(logpsi))])]
                         /\ fj' = fj + 1
                         /\ pc' = pc
                    ELSE \* flip_logpsi-logpsi raises
                         /\ pc' = "raised"
                         /\ UNCHANGED <<eloc, fj>>
       ELSE /\ fj' = 0
            /\ pc' = "Eo"
            /\ UNCHANGED <<eloc, evals, watched>>
    /\ UNCHANGED <<latticeVars, paramVars, sampleVars, loopVars, recording>>


(***************************************************************************)
(* The rest of an iteration: Eo, the loss, its gradient, the optimizer     *)
(* step and the bookkeeping of the energies.                               *)
(***************************************************************************)
RECURSIVE SumTo(_, _)
SumTo(e, m) == IF m = 0 THEN 0 ELSE SumTo(e, m - 1) + e[m]

\* the float that is not a number
NaN == "nan"

\* tf.reduce_mean / np.mean of a batch, rounded down; of an empty batch, 0/0
MeanOf(e) == IF Len(e) = 0 THEN NaN ELSE SumTo(e, Len(e)) \div Len(e)

VarOfSample(e) ==
    LET m == Len(e)
        tot == SumTo(e, m)
        dev == [i \in 1 .. m |-> (m * e[i] - tot) * (m * e[i] - tot)]
    IN  IF m <= 1 THEN NaN ELSE SumTo(dev, m) \div (m * m * (m - 1))

\* np.var of a batch, in units of 1/EUnit^2, rounded down:
\* sum_i (e_i - mean)^2 / len = sum_i (len*e_i - sum)^2 / len^3
VarOf(e) ==
    LET m == Len(e)
        tot == SumTo(e, m)
        dev == [i \in 1 .. m |-> (m * e[i] - tot) * (m * e[i] - tot)]
    IN  IF m = 0 THEN NaN ELSE SumTo(dev, m) \div (m * m * m)

\* with tape.stop_recording(): Eo = tf.reduce_mean(eloc); leaving the block
\* the tape records again
MeanEo ==
    /\ pc = "Eo"
    /\ Eo' = MeanOf(eloc)
    /\ watched' = IF recording /\ "eloc" \in watched THEN watched \cup {"Eo"} ELSE watched
    /\ recording' = TRUE
    /\ pc' = "loss"
    /\ UNCHANGED <<latticeVars, paramVars, sampleVars, energyVars, evals,
                   n, logpsi, loss, gradients, avg_E, var_E, energy, variance, steps>>

\* tf.stop_gradient(x): the same value, with no path back to theta
StopGradient(paths) == {}

LossTermNoBaseline(lp, e, e0) == [log |-> lp, plus |-> 2 * e, minus |-> 0]

\* 2.0*tf.multiply(logpsi, stop_gradient(eloc)) - 2.0*stop_gradient(Eo)*logpsi
\* for one sample: (plus - minus) * log, in units of 1/EUnit
LossTerm(lp, e, e0) == [log |-> lp, plus |-> 2 * e, minus |-> 2 * e0]

\* the tensors through which the loss depends on theta
LossPaths ==
    IF recording
    THEN (watched \cap {"logpsi"}) \cup StopGradient(watched \cap {"eloc"})
                                   \cup StopGradient(watched \cap {"Eo"})
    ELSE {}

\* the loss, a mean over the batch, is NaN when the batch is empty
NonFinite(l) == Len(l.mean_of) = 0

\* loss = tf.reduce_mean(...), the last statement under the tape
Loss ==
    /\ pc = "loss"
    /\ loss' = [mean_of |-> [i \in Batch |-> LossTerm(logpsi[i], eloc[i], Eo)],
                paths |-> LossPaths]
    /\ recording' = FALSE
    /\ pc' = "gradient"
    /\ UNCHANGED <<latticeVars, paramVars, sampleVars, energyVars, watched, evals,
                   n, logpsi, Eo, gradients, avg_E, var_E, energy, variance, steps>>

\* gradients = tape.gradient(loss, vmc.trainable_variables): the mean over
\* the batch of weight[i] * d logpsi[i] / d theta along the recorded paths
Gradient ==
    /\ pc = "gradient"
    /\ gradients' = [weight |-> [i \in Batch |-> loss.mean_of[i].plus - loss.mean_of[i].minus],
                     paths |-> loss.paths]
    /\ pc' = "apply"
    /\ UNCHANGED <<latticeVars, paramVars, sampleVars, energyVars, tapeVars,
                   n, logpsi, Eo, loss, avg_E, var_E, energy, variance, steps>>

\* vmc.optimizer.apply_gradients(zip(gradients, vmc.trainable_variables))
Apply ==
    /\ pc = "apply"
    /\ theta' \in OptimizerStep(theta, gradients)
    /\ steps' = steps + 1
    /\ pc' = "record"
    /\ UNCHANGED <<latticeVars, ns, epochs, sampleVars, energyVars, tapeVars,
                   n, logpsi, Eo, loss, gradients, avg_E, var_E, energy, variance>>

\* energies = eloc.numpy(); avg_E; var_E; energy.append(avg_E)
Record ==
    /\ pc = "record"
    /\ avg_E' = IF Len(eloc) = 0 THEN NaN ELSE MeanOf(eloc) \div N
    /\ var_E' = IF Len(eloc) = 0 THEN NaN ELSE VarOf(eloc) \div N
    /\ energy' = Append(energy, avg_E')
    /\ pc' = "for"
    /\ UNCHANGED <<latticeVars, paramVars, sampleVars, energyVars, tapeVars,
                   n, logpsi, Eo, loss, gradients, variance, steps>>

LatticeDims == (1 .. MaxL) \X (1 .. MaxL)

InitL == InitProgram(LatticeDims, EnergyThetas, {1}, {1})
NextL == BuildLattice
SpecLattice == InitL /\ [][NextL]_vars

\* lattices of at most m sites
DimsUpTo(m) == {d \in (1 .. m) \X (1 .. m) : d[1] * d[2] <= m}

\* sampling and scoring, for every theta of the grid
InitM == InitProgram(DimsUpTo(MaxSites - 1), Theta, {1}, {1})
NextM == BuildLattice \/ StartLoop \/ ForNext \/ SampleStep \/ TapeLogpsi
SpecModel == InitM /\ [][NextM]_vars

InitE == InitProgram(DimsUpTo(MaxSites + 2), EnergyThetas, {1}, {1})
NextE == NextM \/ LeDiag \/ LeFlip
SpecEnergy == InitE /\ [][NextE]_vars

\* the whole program on a small chain
TrainDims == {<<TrainSites, 1>>}
Init == InitProgram(TrainDims, TrainThetas, {MaxBatch}, 0 .. MaxEpochs)
Next == NextE \/ MeanEo \/ Loss \/ Gradient \/ Apply \/ Record
Spec == Init /\ [][Next]_vars

\* the program runs on one thread and always takes its next step
FairSpec == Spec /\ WF_vars(Next)

\* a caller's vmc.localenergy(samples, logpsi) on the constructed model, with
\* a rectangular array of ns binary rows of any small length and an array of
\* any small number of log-amplitudes
CallLocalenergy ==
    /\ pc = "built"
    /\ \E len \in 0 .. (N + 1) : samples' \in [Batch -> [1 .. len -> 0 .. (K - 1)]]
    /\ \E b \in 1 .. MaxBatch :
          logpsi' \in [1 .. b -> {Logpsi1(theta, c) : c \in [1 .. N -> 0 .. (K - 1)]}]
    /\ pc' = "localenergy"
    /\ UNCHANGED <<latticeVars, paramVars, logP, inputs, hidden_state, sj, energyVars,
                   tapeVars, n, Eo, loss, gradients, avg_E, var_E, energy, variance, steps>>

CallDims == {<<1, 1>>, <<TrainSites, 1>>}
CallThetas == {th \in TrainThetas : th.d[1] # th.d[0]}
InitC == InitProgram(CallDims, CallThetas, 1 .. MaxBatch, {1})
NextC == BuildLattice \/ CallLocalenergy \/ LeDiag \/ LeFlip
SpecCall == InitC /\ [][NextC]_vars

\* the whole program on batches down to the empty one
InitB == InitProgram(TrainDims, TrainThetas, 0 .. 1, 0 .. MaxEpochs)
SpecBatch == InitB /\ [][Next]_vars

\* the constructor called with any small dimensions, non-positive ones
\* included: Python's range() of a non-positive length is empty
SignedDims == ((0 - 1) .. MaxL) \X ((0 - 1) .. MaxL)
InitD == InitProgram(SignedDims, EnergyThetas, {1}, {1})
NextD == BuildLattice
SpecDims == InitD /\ [][NextD]_vars

(***************************************************************************)
(* Lattice geometry, independent of the loops: site s has coordinates      *)
(* (s \div Ly, s % Ly) and two sites have a squared Euclidean distance.    *)
(***************************************************************************)
Sites == 0 .. (N - 1)
SiteX(s) == s \div Ly
SiteY(s) == s % Ly
Sq(a) == a * a
Dist2(s, t) == Sq(SiteX(s) - SiteX(t)) + Sq(SiteY(s) - SiteY(t))
PairsAt(d2) == {{s, t} : <<s, t>> \in {p \in Sites \X Sites : Dist2(p[1], p[2]) = d2}}
BondSet(list) == {{list[i][1], list[i][2]} : i \in DOMAIN list}
AllBonds == nn \o nnn \o nnnn

\* C1: once buildlattice has returned, NN is exactly the set of unordered
\* pairs of distinct sites at distance 1, NNN those at distance sqrt(2), NNNN
\* those at distance 2 (necessarily along one axis); every pair is listed
\* once across the three lists, in one orientation only, is no self pair and
\* has both endpoints in 0..N-1 (so no pair wraps around a boundary).
C1_LatticeExact ==
    pc = "built" =>
        /\ BondSet(nn) = PairsAt(1)
        /\ BondSet(nnn) = PairsAt(2)
        /\ BondSet(nnnn) = PairsAt(4)
        /\ \A s, t \in Sites : Dist2(s, t) = 4 => (SiteX(s) = SiteX(t) \/ SiteY(s) = SiteY(t))
        /\ \A i \in DOMAIN AllBonds :
              /\ AllBonds[i][1] \in Sites /\ AllBonds[i][2] \in Sites
              /\ AllBonds[i][1] # AllBonds[i][2]
        /\ \A i, j \in DOMAIN AllBonds :
              i # j => {AllBonds[i][1], AllBonds[i][2]} # {AllBonds[j][1], AllBonds[j][2]}

\* a built non-square lattice that has bonds of all three classes
C1_Witness ==
    pc = "built" /\ Lx = 3 /\ Ly = 4 /\ nn # <<>> /\ nnn # <<>> /\ nnnn # <<>>

\* C2: buildlattice gives 4 NN, 2 NNN and 0 NNNN bonds on the 2x2 lattice and
\* 24 NN, 18 NNN and 16 NNNN bonds on the 4x4 lattice.
C2_BondCounts ==
    pc = "built" =>
        /\ (Lx = 2 /\ Ly = 2) => (Len(nn) = 4 /\ Len(nnn) = 2 /\ Len(nnnn) = 0)
        /\ (Lx = 4 /\ Ly = 4) => (Len(nn) = 24 /\ Len(nnn) = 18 /\ Len(nnnn) = 16)

C2_Witness == pc = "built" /\ Lx = 4 /\ Ly = 4 /\ Len(nn) = 24

(***************************************************************************)
(* Sampling against scoring.                                               *)
(***************************************************************************)
\* C5: while sample runs, the input and hidden state it holds for the next
\* site are those the teacher-forced pass of logpsi uses on the configuration
\* built so far (zero start token at site 0, one-hot of the previous outcome
\* afterwards, zero initial hidden state), and logP is the sum logpsi forms
\* over those sites; so for the batch sample returns, logpsi(samples) is one
\* half of logP for every sequence, for unchanged theta.
C5_SampleLogpsiConsistent ==
    /\ pc = "sample" =>
          \A i \in Batch :
             /\ Len(samples[i]) = sj
             /\ hidden_state[i] = RnnOutput(theta, samples[i], sj)
             /\ inputs[i] = LogpsiInput(samples[i], sj + 1)
             /\ LogEq(logP[i], LogpsiSum(theta, samples[i], sj))
    /\ pc = "localenergy" =>
          \A i \in Batch : LogEq(logpsi[i], Half(logP[i]))

\* logpsi has scored a sequence on the largest lattice that sample drew
\* under parameters whose conditionals depend on the previous outcome
C5_Witness ==
    /\ pc = "localenergy" /\ N = MaxSites - 1
    /\ samples[1][1] # samples[1][2]
    /\ theta.k[1] # theta.k[2] /\ theta.d[0] # theta.d[1]

(***************************************************************************)
(* Normalisation.  exp(2*logpsi(s)) is the rational num/den of logpsi(s);  *)
(* every configuration of a lattice has the same den, PUnit^N.             *)
(***************************************************************************)
Configs == [1 .. N -> 0 .. (K - 1)]
\* exp(2 * a) for a = ln(num/den)/2
ExpTwice(a) == <<a.num, a.den>>
RECURSIVE SumNum(_, _)
SumNum(th, S) ==
    IF S = {} THEN 0
    ELSE LET s == CHOOSE x \in S : TRUE
         IN  ExpTwice(Logpsi1(th, s))[1] + SumNum(th, S \ {s})
RECURSIVE Pow(_, _)
Pow(a, e) == IF e = 0 THEN 1 ELSE a * Pow(a, e - 1)
CommonDen(th) == \A s \in Configs : ExpTwice(Logpsi1(th, s))[2] = Pow(PUnit, N)

\* C6 as claimed: the sum of exp(2*logpsi(s)) over all 2^N configurations is
\* exactly 1, the floor inside the logarithm included.
C6_ClaimedExactlyNormalized ==
    pc = "localenergy" =>
        /\ CommonDen(theta)
        /\ SumNum(theta, Configs) = Pow(PUnit, N)

\* C6 as amended: the sum of exp(2*logpsi(s)) over all 2^N configurations is
\* (1 + K*floor)^N: each site's two floored conditionals sum to 1 + K*floor,
\* so the total exceeds 1 by the floor's contribution.
C6_NormalizedUpToFloor ==
    pc = "localenergy" =>
        /\ CommonDen(theta)
        /\ SumNum(theta, Configs) = Pow(PUnit + K * Floor, N)

C6_Witness ==
    /\ pc = "localenergy" /\ N = MaxSites - 1
    /\ theta.k[1] # theta.k[2] /\ theta.d[0] # theta.d[1]
    /\ logpsi[1].root = 2

(***************************************************************************)
(* Local energy.                                                           *)
(***************************************************************************)
Ones(s) == Cardinality({c \in DOMAIN s : s[c] = 1})
BothUp(bonds, s) ==
    Cardinality({m \in DOMAIN bonds : s[bonds[m][1] + 1] = 1 /\ s[bonds[m][2] + 1] = 1})
\* 64 times (-delta*ones + V*NN + (V/8)*NNN + (V/64)*NNNN)
Diag64(s) ==
    0 - 64 * delta * Ones(s) + 64 * V * BothUp(nn, s)
      + 8 * V * BothUp(nnn, s) + V * BothUp(nnnn, s)
\* s with site j complemented
Complemented(s, j) == [c \in 1 .. Len(s) |-> IF c = j + 1 THEN 1 - s[c] ELSE s[c]]
\* the evaluations of the current iteration made before localenergy was
\* called: sample, then the loop's logpsi pass on the samples
EvalsBeforeEnergy ==
    /\ Len(evals) >= 2
    /\ evals[1].fn = "sample"
    /\ evals[2].fn = "logpsi" /\ evals[2].arg = samples

\* C3: when localenergy reaches its off-diagonal loop, eloc is, for every
\* configuration of the batch, -delta * (number of sites that are 1) + V *
\* (NN bonds with both ends 1) + (V/8) * (NNN bonds with both ends 1) + (V/64)
\* * (NNNN bonds with both ends 1), and localenergy has evaluated logpsi on
\* nothing to get there.
C3_DiagonalEnergy ==
    (pc = "offdiag" /\ fj = 0) =>
        /\ \A i \in Batch : 64 * eloc[i] = EUnit * Diag64(samples[i])
        /\ EvalsBeforeEnergy /\ Len(evals) = 2

\* the diagonal part of a fully excited 3x2 lattice, which has bonds of all
\* three classes
C3_Witness ==
    /\ pc = "offdiag" /\ fj = 0 /\ Lx = 3 /\ Ly = 2
    /\ samples[1] = [c \in 1 .. N |-> 1]
    /\ nn # <<>> /\ nnn # <<>> /\ nnnn # <<>>

\* sum over the sites j < m of -0.5 * Omega * exp(logpsi(s with j flipped) - lp)
RECURSIVE OffDiagSum(_, _, _, _)
OffDiagSum(th, s, lp, m) ==
    IF m = 0 THEN 0
    ELSE OffDiagSum(th, s, lp, m - 1)
         - ((Omega * ExpDiff(Logpsi1(th, Complemented(s, m - 1)), lp)) \div 2)

\* C4: one call of localenergy evaluates logpsi exactly N times, the j-th
\* time (j = 0..N-1, in this order) on the batch that is the input with
\* site j alone complemented, never on the input itself; each evaluation
\* adds -0.5 * Omega * exp(logpsi(flipped) - logpsi passed in) to eloc.
C4_OffDiagonalLoop ==
    /\ pc = "offdiag" =>
          /\ EvalsBeforeEnergy /\ Len(evals) = 2 + fj
          /\ \A j \in 0 .. (fj - 1) :
                /\ evals[3 + j].fn = "logpsi"
                /\ evals[3 + j].arg = [i \in Batch |-> Complemented(samples[i], j)]
                /\ evals[3 + j].arg # samples
          /\ \A i \in Batch :
                64 * (eloc[i] - OffDiagSum(theta, samples[i], logpsi[i], fj))
                   = EUnit * Diag64(samples[i])
    /\ pc = "Eo" =>
          /\ Len(evals) = 2 + N
          /\ \A i \in Batch :
                64 * (eloc[i] - OffDiagSum(theta, samples[i], logpsi[i], N))
                   = EUnit * Diag64(samples[i])

\* localenergy has returned on a 2x2 lattice with amplitudes that differ
\* between the configuration and one of its flipped neighbours
C4_Witness ==
    /\ pc = "Eo" /\ Lx = 2 /\ Ly = 2 /\ Len(evals) = 6
    /\ \E j \in 0 .. (N - 1) :
          ~LogEq(Logpsi1(theta, Complemented(samples[1], j)), logpsi[1])

(***************************************************************************)
(* The training loop.                                                      *)
(***************************************************************************)
\* the local energy of sample i of the current batch under the current
\* parameters, from the closed form
RefEloc(i) ==
    (EUnit * Diag64(samples[i])) \div 64
    + OffDiagSum(theta, samples[i], Logpsi1(theta, samples[i]), N)
RefElocs == [i \in Batch |-> RefEloc(i)]

\* C7: once an iteration has formed its loss, the loss is the mean over the
\* batch of 2 * logpsi_i * eloc_i - 2 * E0 * logpsi_i, where logpsi_i is the
\* log-amplitude of this iteration's i-th sample, eloc_i its local energy
\* computed from this iteration's samples and log-amplitudes, and E0 the mean
\* of exactly these local energies; the loss depends on the parameters
\* through logpsi only, eloc and E0 being detached.
C7_LossForm ==
    pc = "gradient" =>
        /\ eloc = RefElocs
        /\ Eo = MeanOf(RefElocs)
        /\ DOMAIN loss.mean_of = Batch
        /\ \A i \in Batch :
              /\ LogEq(loss.mean_of[i].log, Logpsi1(theta, samples[i]))
              /\ loss.mean_of[i].plus = 2 * RefEloc(i)
              /\ loss.mean_of[i].minus = 2 * MeanOf(RefElocs)
        /\ loss.paths = {"logpsi"}

\* the loss of the second iteration, on a batch whose two local energies
\* differ, so that neither is the baseline
C7_Witness ==
    /\ pc = "gradient" /\ n = 2
    /\ eloc[1] # eloc[2] /\ Eo # eloc[1] /\ Eo # 0
    /\ samples[1] # samples[2]

\* C8: theta changes only in the step that applies the gradients, and that
\* step is taken exactly once per iteration: every step of the program other
\* than apply_gradients leaves theta as it is, the count of optimizer steps
\* grows only there and by one, the optimizer step of iteration n is the n-th,
\* and at every return to the head of the loop as many optimizer steps have
\* been taken as iterations begun.
C8_ThetaOnlyInOptimizerStep ==
    [][ /\ (theta' # theta => pc = "apply")
        /\ (steps' # steps => pc = "apply")
        /\ (pc = "apply" => steps' = steps + 1 /\ steps' = n)
        /\ (pc \in {"sample", "tape", "localenergy", "offdiag", "Eo"} =>
               theta' = theta /\ steps = n - 1)
        /\ (pc = "for" => steps = n) ]_vars

\* the second iteration has applied its gradients, after sampling, scoring
\* and all N flipped evaluations
C8_Witness ==
    /\ pc = "record" /\ n = 2 /\ steps = 2
    /\ Len(evals) = 2 + N

\* C9: in every iteration the only model evaluation the tape records is the
\* logpsi pass on the sampled configurations (the second evaluation of the
\* iteration): sample runs with the tape not recording, the N flipped logpsi
\* passes of localenergy and the mean Eo run with recording stopped, so only
\* logpsi is connected to theta on the tape, and the loss and the gradients
\* reach theta through logpsi alone.
C9_OnlyLogpsiRecorded ==
    /\ \A k \in DOMAIN evals :
          evals[k].rec => (k = 2 /\ evals[k].fn = "logpsi" /\ evals[k].arg = samples)
    /\ pc \in {"sample", "tape", "offdiag", "Eo"} => ~recording
    /\ pc \in {"localenergy", "offdiag", "Eo", "loss", "gradient", "apply", "record"} =>
          /\ Len(evals) >= 2 /\ evals[1].fn = "sample" /\ ~evals[1].rec
          /\ evals[2].rec
          /\ watched = {"logpsi"}
    /\ pc \in {"loss", "gradient", "apply", "record"} =>
          /\ Len(evals) = 2 + N
          /\ \A k \in 3 .. (2 + N) : evals[k].fn = "logpsi" /\ ~evals[k].rec
    /\ pc \in {"gradient", "apply", "record"} => loss.paths = {"logpsi"}
    /\ pc \in {"apply", "record"} => gradients.paths = {"logpsi"}

\* the gradients of the second iteration, taken after one recorded and N
\* unrecorded logpsi passes
C9_Witness ==
    /\ pc = "apply" /\ n = 2
    /\ Len(evals) = 2 + N /\ evals[2].rec /\ ~evals[3].rec
    /\ gradients.paths = {"logpsi"}

\* C10: every run of the loop terminates, and at its end exactly epochs
\* iterations have been begun and exactly epochs optimizer steps taken, one
\* per iteration; as the ended loop takes no further step, no run ends with
\* fewer or more iterations than epochs.
C10_TerminatesAfterEpochs ==
    <>(pc = "done" /\ n = epochs /\ steps = epochs)

\* the run of the largest epoch count has ended
C10_Witness ==
    /\ pc = "done" /\ epochs = MaxEpochs
    /\ n = MaxEpochs /\ steps = MaxEpochs /\ Len(energy) = MaxEpochs

(***************************************************************************)
(* The reported trajectory.                                                *)
(***************************************************************************)
\* C11: the lists energy and variance grow together, by exactly one entry
\* per iteration and only at the end of an iteration, the new entries being
\* that iteration's avg_E and var_E; no other step changes either list, and
\* at the head of the loop, after n iterations, both hold n entries.
C11_TrajectoryAppendOnly ==
    [][ /\ (pc = "for" => Len(energy) = n /\ Len(variance) = n)
        /\ (pc = "record" =>
               /\ energy' = Append(energy, avg_E')
               /\ variance' = Append(variance, var_E'))
        /\ (pc \notin {"record", "built"} =>
               energy' = energy /\ variance' = variance) ]_vars

(***************************************************************************)
(* Failure modes.                                                          *)
(***************************************************************************)
\* C12: the constructor never returns a model, with its bond lists, for a
\* non-positive dimension: whenever buildlattice has returned, both Lx and
\* Ly are positive (for Lx <= 0 or Ly <= 0 the construction ends in an
\* InvalidConfiguration error instead).
C12_InvalidDimensionsRejected ==
    pc = "built" => (Lx > 0 /\ Ly > 0)

\* C13: localenergy returns an energy only for arguments whose shapes
\* agree: whenever it has returned, every configuration passed in has length
\* N and there are as many configurations as log-amplitudes (for any other
\* arguments the call ends in a ShapeMismatch error instead).
C13_ShapeMismatchRejected ==
    pc = "Eo" =>
        /\ \A i \in DOMAIN samples : Len(samples[i]) = N
        /\ Len(samples) = Len(logpsi)

\* C14: an iteration whose loss is not finite goes no further than raising
\* the failure: while the last loss formed is non-finite, the program is
\* either still at the computation of that iteration's gradients, before its
\* optimizer step, or has raised; it never applies that step, records that
\* iteration or starts another.
C14_NonFiniteLossAborts ==
    (DOMAIN loss # {} /\ NonFinite(loss)) => pc \in {"gradient", "apply", "raised"}

(***************************************************************************)
(* Flipping a site twice.                                                  *)
(***************************************************************************)
\* exp(2 * (a - b)) for two halved logarithms, as numerator and denominator
RatioNum(a, b) == IF a.den = b.den THEN a.num ELSE a.num * b.den
RatioDen(a, b) == IF a.den = b.den THEN b.num ELSE a.den * b.num

\* C15: for every sampled configuration s and every site j, the flip of the
\* off-diagonal loop applied twice at j gives s back (and once gives another
\* configuration), so the ratio the loop forms at site j for the flipped
\* configuration, exp(logpsi(flip(flip(s))) - logpsi(flip(s))), is
\* exp(logpsi(s) - logpsi(flip(s))), the reciprocal of the ratio it forms at
\* site j for s: the two ratios multiply to 1.  The batches the loop has
\* evaluated so far flip back to the samples in the same way.
C15_DoubleFlipReciprocal ==
    pc \in {"offdiag", "Eo"} =>
        /\ \A i \in Batch : \A j \in 0 .. (N - 1) :
              LET s == samples[i]
                  t == FlipSite(s, j)
                  ls == Logpsi1(theta, s)
                  lt == Logpsi1(theta, t)
                  ltt == Logpsi1(theta, FlipSite(t, j))
              IN  /\ t # s
                  /\ FlipSite(t, j) = s
                  /\ ExpDiff(ltt, lt) = ExpDiff(ls, lt)
                  /\ RatioNum(ltt, lt) * RatioNum(lt, ls)
                        = RatioDen(ltt, lt) * RatioDen(lt, ls)
        /\ \A k \in 3 .. Len(evals) : FlipBatch(evals[k].arg, k - 3) = samples

\* the loop has flipped a site of a 2x2 configuration, and the flipped
\* amplitude differs from the original one
C15_Witness ==
    /\ pc = "offdiag" /\ fj >= 1 /\ Lx = 2 /\ Ly = 2
    /\ Len(evals) = 2 + fj
    /\ ~LogEq(Logpsi1(theta, FlipSite(samples[1], fj - 1)), logpsi[1])

(***************************************************************************)
(* The order of the steps of an iteration.                                 *)
(***************************************************************************)
\* the steps of the training loop, as pairs of successive control positions
StepOrder ==
    { <<"for", "sample">>, <<"sample", "tape">>, <<"tape", "localenergy">>,
      <<"localenergy", "offdiag">>, <<"offdiag", "Eo">>, <<"Eo", "loss">>,
      <<"loss", "gradient">>, <<"gradient", "apply">>, <<"apply", "record">>,
      <<"record", "for">>, <<"for", "done">> }

\* the local energy of configuration s under the parameters th
ElocUnder(th, s) ==
    (EUnit * Diag64(s)) \div 64 + OffDiagSum(th, s, Logpsi1(th, s), N)

\* C16: once the loop runs, control moves only along sample, logpsi,
\* localenergy (diagonal part, flips), Eo, loss, gradient, optimizer step,
\* bookkeeping and back to the head; from the start of an iteration up to its
\* optimizer step theta stays the same, and every evaluation of the iteration
\* (the sampling, the logpsi pass, each flipped pass) was made with it, in
\* the order sample, logpsi on the samples, the flips; the optimizer step is
\* taken with all 2 + N evaluations made; the energy then recorded is the
\* mean local energy under the parameters of these evaluations, not under the
\* updated ones; and the next iteration starts with no evaluation made yet.
C16_StepOrderSameTheta ==
    [][ /\ (pc' # pc /\ n >= 1 => <<pc, pc'>> \in StepOrder)
        /\ (pc \in {"sample", "tape", "localenergy", "offdiag", "Eo", "loss", "gradient"} =>
               /\ theta' = theta
               /\ \A k \in DOMAIN evals' : evals'[k].theta = theta)
        /\ (\A k \in DOMAIN evals' :
               evals'[k].fn = IF k = 1 THEN "sample" ELSE "logpsi")
        /\ (pc = "apply" =>
               /\ Len(evals) = 2 + N
               /\ evals[2].arg = samples
               /\ \A k \in DOMAIN evals : evals[k].theta = theta)
        /\ (pc = "record" =>
               /\ evals' = evals
               /\ energy'[n] = MeanOf([i \in Batch |->
                                  ElocUnder(evals[1].theta, samples[i])]) \div N)
        /\ (pc = "for" /\ pc' = "sample" => evals' = <<>> /\ steps = n) ]_vars

\* the second iteration is about to record its energy, its optimizer step
\* having moved theta away from the parameters of its evaluations
C16_Witness ==
    /\ pc = "record" /\ n = 2 /\ Len(evals) = 2 + N
    /\ theta # evals[1].theta
    /\ ElocUnder(theta, samples[1]) # ElocUnder(evals[1].theta, samples[1])

(***************************************************************************)
(* The summary values of an iteration.                                     *)
(***************************************************************************)
\* e_1^2 + ... + e_k^2
RECURSIVE SumSq(_, _)
SumSq(e, k) == IF k = 0 THEN 0 ELSE SumSq(e, k - 1) + e[k] * e[k]

\* the variance of the batch as the mean of the squares minus the square of
\* the mean, in units of 1/EUnit^2, rounded down
MeanSqMinusSqMean(e) ==
    (Len(e) * SumSq(e, Len(e)) - SumTo(e, Len(e)) * SumTo(e, Len(e))) \div (Len(e) * Len(e))

\* the loop is at its head or past its end, the bookkeeping of at least one
\* iteration done
Summarised == pc \in {"for", "done"} /\ n >= 1 /\ Len(eloc) = ns /\ ns >= 1

\* C17 as claimed: the summary values computed by an iteration are the mean
\* and the variance of local_energy/N, that is mean(local_energy)/N and
\* var(local_energy)/N^2.
C17_ClaimedVarianceOfPerSiteEnergy ==
    Summarised =>
        /\ avg_E = (SumTo(eloc, ns) \div ns) \div N
        /\ var_E = MeanSqMinusSqMean(eloc) \div (N * N)

\* C17 amended: the summary values computed by an iteration are
\* mean(local_energy)/N and var(local_energy)/N, the variance per site, which
\* is N times the variance of local_energy/N.
C17_MeanAndVariancePerSite ==
    Summarised =>
        /\ avg_E = (SumTo(eloc, ns) \div ns) \div N
        /\ var_E = MeanSqMinusSqMean(eloc) \div N

\* an iteration whose two local energies differ has been summarised, and its
\* variance per site is not the variance of the energy per site
C17_Witness ==
    /\ Summarised /\ N = 2 /\ ns = 2
    /\ eloc[1] # eloc[2]
    /\ var_E > 0
    /\ var_E # MeanSqMinusSqMean(eloc) \div (N * N)

(***************************************************************************)
(* The configurations built by sample.                                     *)
(***************************************************************************)
\* a batch of ns complete configurations: N entries each, every entry 0 or 1
BinaryBatch(b) ==
    /\ DOMAIN b = 1 .. ns
    /\ \A i \in 1 .. ns : Len(b[i]) = N /\ \A c \in 1 .. N : b[i][c] \in {0, 1}

\* C18: while sample runs, after sj steps every partial configuration of the
\* batch has sj entries, each 0 or 1, and the input of the next step is the
\* all-zero vector before the first step and afterwards the one-hot vector of
\* the outcome just drawn; the batch sample returns holds ns configurations
\* of N binary entries, and so does every batch passed to logpsi and every
\* batch localenergy works on in the training loop.
C18_SampleBuildsBinaryConfigurations ==
    /\ pc = "sample" =>
          /\ sj \in 0 .. N
          /\ DOMAIN samples = 1 .. ns
          /\ \A i \in 1 .. ns :
                /\ Len(samples[i]) = sj
                /\ \A c \in 1 .. sj : samples[i][c] \in {0, 1}
                /\ inputs[i] = IF sj = 0 THEN <<0, 0>>
                               ELSE IF samples[i][sj] = 0 THEN <<1, 0>> ELSE <<0, 1>>
    /\ pc \in {"tape", "localenergy", "offdiag", "Eo", "loss", "gradient", "apply", "record"} =>
          BinaryBatch(samples)
    /\ \A k \in DOMAIN evals : BinaryBatch(evals[k].arg)

\* the second iteration's sampling has one site left to draw, the two
\* configurations of the batch differing in the outcome just drawn
C18_Witness ==
    /\ pc = "sample" /\ n = 2 /\ sj = N - 1 /\ sj >= 1 /\ ns = 2
    /\ samples[1][sj] = 1 /\ samples[2][sj] = 0
    /\ inputs[1] # inputs[2]


=============================================================================
